---- MODULE Spec2Model ----
(***************************************************************************)
(* A model of the dispatch-table registry of the Vulkan performance layers *)
(* (src/layer/layer_data.cc): the create/remove lifecycle of instances and *)
(* devices, the loader's layer-link protocol, and the shader-hash table.   *)
(* Every thread of the host application may call into the layer at any     *)
(* time; one step of the model is one step a thread takes between two      *)
(* points where another thread can observe the registry.                   *)
(***************************************************************************)
EXTENDS Integers, Sequences, FiniteSets, TLC

\* ------------------------------------------------------------------------
\* Bounds of the model.
NumThreads == 2
NumInstances == 2
NumDevices == 1
NumShaders == 2
NumCodes == 2
NumLayers == 2
MaxChainLen == 2
ConcChainLen == 1
MaxLines == 2
MaxPipeline == 2
MaxClock == 3
MaxEvents == 3
MaxDeltas == 3
MaxEndLogs == 3

\* ------------------------------------------------------------------------
\* Handles: opaque values, compared only for equality.  `id` of an instance
\* or a physical device is the loader's dispatch key of the instance.
VK_NULL_HANDLE == [kind |-> "VK_NULL_HANDLE", id |-> 0]
InstanceHandles == {[kind |-> "VkInstance", id |-> i] : i \in 1..NumInstances}
PhysicalDeviceHandles == {[kind |-> "VkPhysicalDevice", id |-> i] : i \in 1..NumInstances}
DeviceHandles == {[kind |-> "VkDevice", id |-> d] : d \in 1..NumDevices}
ShaderHandles == {[kind |-> "VkShaderModule", id |-> s] : s \in 1..NumShaders}

\* InstanceKey(handle): the key an instance shares with its physical devices.
InstanceKey(handle) == handle.id

\* ------------------------------------------------------------------------
\* Result codes.
VK_SUCCESS == "VK_SUCCESS"
VK_ERROR_INITIALIZATION_FAILED == "VK_ERROR_INITIALIZATION_FAILED"
VK_ERROR_OUT_OF_HOST_MEMORY == "VK_ERROR_OUT_OF_HOST_MEMORY"
VK_ERROR_INCOMPATIBLE_DRIVER == "VK_ERROR_INCOMPATIBLE_DRIVER"
\* What the next layer's (at the bottom, the driver's) create call can return.
NextResults == {VK_SUCCESS, VK_ERROR_OUT_OF_HOST_MEMORY, VK_ERROR_INCOMPATIBLE_DRIVER}

\* ------------------------------------------------------------------------
\* The creation-parameter chain: a pNext list of records.  A record carries a
\* structure type, a function, and (for a link record) u.pLayerInfo, a
\* pointer into the loader's list of layer-info elements: 1..NumLayers, 0 is
\* the null pointer.
LOADER_INSTANCE_CREATE_INFO == "VK_STRUCTURE_TYPE_LOADER_INSTANCE_CREATE_INFO"
LOADER_DEVICE_CREATE_INFO == "VK_STRUCTURE_TYPE_LOADER_DEVICE_CREATE_INFO"
VK_LAYER_LINK_INFO == "VK_LAYER_LINK_INFO"
VK_LOADER_DATA_CALLBACK == "VK_LOADER_DATA_CALLBACK"

ChainRecords ==
    {[sType |-> s, function |-> f,
      pLayerInfo |-> IF f = VK_LAYER_LINK_INFO THEN 1 ELSE 0] :
        s \in {LOADER_INSTANCE_CREATE_INFO, LOADER_DEVICE_CREATE_INFO},
        f \in {VK_LAYER_LINK_INFO, VK_LOADER_DATA_CALLBACK}}

\* The chains a caller may hand in: every pNext list of at most n records, as
\* the loader built it (each link record at the first element).
ChainsUpTo(n) == UNION {[1..m -> ChainRecords] : m \in 0..n}

\* The loader's layer-info list: element j belongs to layer j of the stack and
\* names the resolvers of what is below it: layer j+1, or the driver
\* (NumLayers + 1) below the last layer.
Driver == NumLayers + 1
NullResolver == [fn |-> "null", of |-> 0]
NullLayerInfo ==
    [pfnNextGetInstanceProcAddr |-> NullResolver,
     pfnNextGetDeviceProcAddr |-> NullResolver, pNext |-> 0]
LayerInfo(p) ==
    IF p \in 1..NumLayers
    THEN [pfnNextGetInstanceProcAddr |-> [fn |-> "vkGetInstanceProcAddr", of |-> p + 1],
          pfnNextGetDeviceProcAddr |-> [fn |-> "vkGetDeviceProcAddr", of |-> p + 1],
          pNext |-> IF p < NumLayers THEN p + 1 ELSE 0]
    ELSE NullLayerInfo

\* FindInstanceCreateInfo: the first record of the chain whose sType is the
\* loader instance create info and whose function is the layer link; 0
\* (nullptr) if there is none.
RECURSIVE FindInstanceCreateInfoFrom(_, _)
FindInstanceCreateInfoFrom(create_info, i) ==
    IF i > Len(create_info) THEN 0
    ELSE IF create_info[i].sType # LOADER_INSTANCE_CREATE_INFO
            \/ create_info[i].function # VK_LAYER_LINK_INFO
         THEN FindInstanceCreateInfoFrom(create_info, i + 1)
         ELSE i

\* Mutant: the walk stops at a record as soon as either test matches
\* (`&&` for `||` in the loop condition).
RECURSIVE FindInstanceCreateInfoEitherFrom(_, _)
FindInstanceCreateInfoEitherFrom(create_info, i) ==
    IF i > Len(create_info) THEN 0
    ELSE IF create_info[i].sType # LOADER_INSTANCE_CREATE_INFO
            /\ create_info[i].function # VK_LAYER_LINK_INFO
         THEN FindInstanceCreateInfoEitherFrom(create_info, i + 1)
         ELSE i

FindInstanceCreateInfoEither(create_info) == FindInstanceCreateInfoEitherFrom(create_info, 1)

FindInstanceCreateInfo(create_info) == FindInstanceCreateInfoFrom(create_info, 1)

\* FindDeviceCreateInfo: the same walk for the loader device create info.
RECURSIVE FindDeviceCreateInfoFrom(_, _)
FindDeviceCreateInfoFrom(create_info, i) ==
    IF i > Len(create_info) THEN 0
    ELSE IF create_info[i].sType # LOADER_DEVICE_CREATE_INFO
            \/ create_info[i].function # VK_LAYER_LINK_INFO
         THEN FindDeviceCreateInfoFrom(create_info, i + 1)
         ELSE i

FindDeviceCreateInfo(create_info) == FindDeviceCreateInfoFrom(create_info, 1)

\* ------------------------------------------------------------------------
\* Maps (absl::flat_hash_map) as functions on the set of keys they hold.
Erase(map, key) == [k \in DOMAIN map \ {key} |-> map[k]]
InsertOrAssign(map, key, value) ==
    [k \in DOMAIN map \cup {key} |-> IF k = key THEN value ELSE map[k]]

\* The dispatch table table_builder makes from a resolver: the functions of
\* the component the resolver belongs to.
EmptyMap == [k \in {} |-> 0]

NoTable == [next |-> NullResolver]
get_dispatch_table(get_proc_addr) == [next |-> get_proc_addr]

\* ------------------------------------------------------------------------
\* State.
VARIABLES
    instance_dispatch_map_,  \* InstanceKey -> dispatch table
    instance_keys_map_,      \* InstanceKey -> VkInstance
    device_dispatch_map_,    \* VkDevice -> dispatch table
    shader_hash_map_,        \* VkShaderModule -> hash
    liveInstances,           \* the instances the driver holds
    liveDevices,             \* the devices the driver holds
    liveShaders,             \* the shader modules the driver holds
    createResult,            \* per handle: what the last create producing it returned
    destroyedShaders,        \* shader handles erased by a destroy and not handed out since
    maxChain,                \* the longest chain a caller hands in
    pc,                      \* per thread: where it is in its call
    loc,                     \* per thread: the call's parameters and locals
    out_,                    \* the primary sink's FILE*
    event_log_,              \* the secondary sink's FILE*, "null" if there is none
    files,                   \* the files that exist and standard error: name -> content
    written,                 \* per sink: the lines handed to WriteLnAndFlush, in order
    ctor,                    \* the constructor's arguments and what fopen returned
    spl_log,                 \* the diagnostics emitted through SPL_LOG
    last_log_time_,          \* the clock reading of the last GetTimeDelta
    log_time_lock_,          \* the thread holding log_time_lock_, 0 if free
    clock,                   \* the monotonic clock
    deltas,                  \* the GetTimeDelta calls in the order they took the lock
    closes,                  \* the fclose calls a CommonLogger made, per stream
    end_logs,                \* the EndLog calls a CommonLogger got
    lpc,                     \* per thread: where it is in its logging call
    lloc                     \* per thread: the logging call's parameters and locals

registry == <<instance_dispatch_map_, instance_keys_map_, device_dispatch_map_>>
driver == <<liveInstances, liveDevices, liveShaders>>
sinks == <<out_, event_log_, files, written, ctor, spl_log>>
timing == <<last_log_time_, log_time_lock_, clock, deltas>>
logging == <<sinks, timing, closes, end_logs, lpc, lloc>>
dispatching == <<registry, shader_hash_map_, driver, createResult, destroyedShaders,
                 maxChain, pc, loc>>
vars == <<instance_dispatch_map_, instance_keys_map_, device_dispatch_map_,
          shader_hash_map_, liveInstances, liveDevices, liveShaders,
          createResult, destroyedShaders, maxChain, pc, loc,
          out_, event_log_, files, written, ctor, spl_log,
          last_log_time_, log_time_lock_, clock, deltas, closes, end_logs, lpc, lloc>>

Threads == DOMAIN pc
Chains == ChainsUpTo(maxChain)

\* The locals of a thread that is in no call.
NoCall ==
    [op |-> "none", create_info |-> <<>>, link |-> 0, layer |-> 0,
     get_proc_addr |-> <<>>, get_device_proc_addr |-> <<>>, observed |-> <<>>,
     physical_device |-> VK_NULL_HANDLE, instance |-> VK_NULL_HANDLE,
     device |-> VK_NULL_HANDLE, handle |-> VK_NULL_HANDLE,
     dispatch_table |-> NoTable, invoked |-> FALSE, added |-> "none",
     code |-> 0, hash |-> 0,
     res |-> "none"]

\* DurationClock::time_point::min() and DurationClock::duration::min(): below
\* every reading of the clock and every difference of two readings.
TimePointMin == -1000000
DurationMin == -2000000

\* The locals of a thread that is in no logging call.
NoLogCall ==
    [op |-> "none", event_type |-> "", line |-> "", timestamp |-> 0,
     extra_content |-> "", pipeline |-> <<>>, prefix |-> "",
     now |-> 0, previous |-> 0, logged_delta |-> 0, res |-> "none"]

\* The logging side of a registry built by LayerData() with the event-log
\* variable unset, and nothing logging.
LoggingIdle ==
    /\ out_ = "stderr"
    /\ event_log_ = "null"
    /\ files = [f \in {"stderr"} |-> ""]
    /\ written = [f \in {"stderr"} |-> <<>>]
    /\ ctor = [log_filename |-> "null", opened |-> FALSE, header |-> ""]
    /\ spl_log = <<>>
    /\ last_log_time_ = TimePointMin
    /\ log_time_lock_ = 0
    /\ clock = 0
    /\ deltas = <<>>
    /\ closes = [f \in {"file", "stderr"} |-> 0]
    /\ end_logs = 0
    /\ lpc = [t \in {} |-> "idle"]
    /\ lloc = [t \in {} |-> NoLogCall]

Free(t) == pc[t] \in {"idle", "done"}

Goto(t, to, locals) ==
    /\ UNCHANGED <<maxChain, logging>>
    /\ pc' = [pc EXCEPT ![t] = to]
    /\ loc' = [loc EXCEPT ![t] = locals]

\* A failed assert, or a call through a null pointer: the process ends.
Abort ==
    /\ pc' = [t \in Threads |-> "aborted"]
    /\ UNCHANGED <<loc, maxChain, logging>>

\* The registry as constructed, with `n` application threads whose chains
\* have at most `len` records.
InitWith(n, len) ==
    /\ instance_dispatch_map_ = EmptyMap
    /\ instance_keys_map_ = EmptyMap
    /\ device_dispatch_map_ = EmptyMap
    /\ shader_hash_map_ = EmptyMap
    /\ liveInstances = {}
    /\ liveDevices = {}
    /\ liveShaders = {}
    /\ createResult = [h \in InstanceHandles \cup DeviceHandles |-> "none"]
    /\ destroyedShaders = {}
    /\ maxChain = len
    /\ pc = [t \in 1..n |-> "idle"]
    /\ loc = [t \in 1..n |-> NoCall]
    /\ LoggingIdle

\* One application thread: the calls come one after the other.
Init == InitWith(1, MaxChainLen)

\* NumThreads application threads calling concurrently.
ConcInit == InitWith(NumThreads, ConcChainLen)

\* ------------------------------------------------------------------------
\* The registry's own operations.

\* GetInstance(key): the instance a key resolves to, VK_NULL_HANDLE if none.
GetInstance(key) ==
    IF key \in DOMAIN instance_keys_map_ THEN instance_keys_map_[key] ELSE VK_NULL_HANDLE

\* AddInstance(instance, table): stores the table and the key under one lock
\* and returns true, or stores nothing and returns false.
AddInstance(instance, dispatch_table, ok) ==
    IF ok
    THEN /\ instance_dispatch_map_' =
              InsertOrAssign(instance_dispatch_map_, InstanceKey(instance), dispatch_table)
         /\ instance_keys_map_' =
              InsertOrAssign(instance_keys_map_, InstanceKey(instance), instance)
    ELSE UNCHANGED <<instance_dispatch_map_, instance_keys_map_>>

\* AddDevice(device, table): the same for a device, keyed by its handle.
AddDevice(device, dispatch_table, ok) ==
    IF ok
    THEN device_dispatch_map_' = InsertOrAssign(device_dispatch_map_, device, dispatch_table)
    ELSE UNCHANGED device_dispatch_map_

\* Mutant: the key map is not touched.
RemoveInstanceKeysKept(keys_map, instance) == keys_map

\* Mutant: the dispatch map is cleared.
RemoveInstanceDispatchClear(dispatch_map, instance) == EmptyMap

\* RemoveInstance(instance): under instance_dispatch_lock_, erases the key from
\* the dispatch map (line 115) and from the key map (line 116).
RemoveInstanceDispatch(dispatch_map, instance) == Erase(dispatch_map, InstanceKey(instance))
RemoveInstanceKeys(keys_map, instance) == Erase(keys_map, InstanceKey(instance))

RemoveInstance(instance) ==
    /\ instance_dispatch_map_' = RemoveInstanceDispatch(instance_dispatch_map_, instance)
    /\ instance_keys_map_' = RemoveInstanceKeys(instance_keys_map_, instance)

\* ------------------------------------------------------------------------
\* The layer-link protocol on the caller's chain.

\* Lines 184-185, 223-224: the instance resolver of the link record's current
\* layer-info element.
ReadInstanceResolver(create_info, link) ==
    LayerInfo(create_info[link].pLayerInfo).pfnNextGetInstanceProcAddr

\* Lines 225-226: the device resolver of the same element.
ReadDeviceResolver(create_info, link) ==
    LayerInfo(create_info[link].pLayerInfo).pfnNextGetDeviceProcAddr

\* Mutant: the link record is left where it was.
AdvanceLayerInfoNot(create_info, link) == create_info

\* Lines 188-189, 231: the link record's pLayerInfo moves to the next element.
AdvanceLayerInfo(create_info, link) ==
    [create_info EXCEPT ![link].pLayerInfo = LayerInfo(@).pNext]

\* The component a create call goes to: what the running layer's resolver names.
Target(l) == l.get_proc_addr[Len(l.get_proc_addr)].of

\* ------------------------------------------------------------------------
\* LayerData::CreateInstance.  loc.layer is the layer of the stack that is
\* running: 1 is this layer; the layers below it run the same protocol on the
\* same chain and hand their result up unchanged.

\* Lines 179-191 as run by layer `layer`: find the link record, read the
\* resolver, advance the record.  The thread-local steps up to the call of the
\* next create function are one step of the model.
CreateInstancePrologue(l, layer) ==
    LET instance_create_info == FindInstanceCreateInfo(l.create_info) IN
    IF instance_create_info = 0
    THEN [l EXCEPT !.layer = layer, !.res = VK_ERROR_INITIALIZATION_FAILED]
    ELSE [l EXCEPT !.layer = layer,
                   !.link = instance_create_info,
                   !.get_proc_addr =
                       Append(@, ReadInstanceResolver(l.create_info, instance_create_info)),
                   !.observed = Append(@, l.create_info[instance_create_info].pLayerInfo),
                   !.create_info = AdvanceLayerInfo(@, instance_create_info)]

CallCreateInstance(t) ==
    /\ Free(t)
    /\ \E create_info \in Chains :
         LET l == CreateInstancePrologue(
                      [NoCall EXCEPT !.op = "CreateInstance", !.create_info = create_info], 1)
         IN Goto(t, IF l.res = "none" THEN "ci_call" ELSE "done", l)
    /\ UNCHANGED <<registry, shader_hash_map_, driver, createResult, destroyedShaders>>

\* Line 192, the call going to a layer below, which runs its own prologue.
CI_InvokeNextLayer(t) ==
    /\ pc[t] = "ci_call"
    /\ Target(loc[t]) # Driver
    /\ IF Target(loc[t]) \in 2..NumLayers
       THEN LET l == CreateInstancePrologue([loc[t] EXCEPT !.invoked = TRUE], Target(loc[t]))
            IN Goto(t, IF l.res = "none" THEN "ci_call" ELSE "ci_result", l)
       ELSE Abort
    /\ UNCHANGED <<registry, shader_hash_map_, driver, createResult, destroyedShaders>>

\* Line 192, the call reaching the driver's vkCreateInstance: it fails, or
\* hands out a handle it does not hold.
DriverCreateInstance(t) ==
    /\ pc[t] = "ci_call"
    /\ Target(loc[t]) = Driver
    /\ \E res \in NextResults :
         IF res = VK_SUCCESS
         THEN \E h \in InstanceHandles \ liveInstances :
                /\ liveInstances' = liveInstances \cup {h}
                /\ createResult' = [createResult EXCEPT ![h] = "pending"]
                /\ Goto(t, "ci_result",
                        [loc[t] EXCEPT !.res = res, !.handle = h, !.invoked = TRUE])
         ELSE /\ Goto(t, "ci_result", [loc[t] EXCEPT !.res = res, !.invoked = TRUE])
              /\ UNCHANGED <<liveInstances, createResult>>
    /\ UNCHANGED <<registry, shader_hash_map_, liveDevices, liveShaders, destroyedShaders>>

\* Mutant: the result of AddInstance is ignored.
CreateInstanceResultIgnored(added) == VK_SUCCESS

\* Mutant: a failed registration is reported as an initialization failure.
CreateInstanceResultInit(added) ==
    IF ~added THEN VK_ERROR_INITIALIZATION_FAILED ELSE VK_SUCCESS

\* What CreateInstance returns after AddInstance (lines 202-206).
CreateInstanceResult(added) ==
    IF ~added THEN VK_ERROR_OUT_OF_HOST_MEMORY ELSE VK_SUCCESS

\* Mutant: only out of host memory counts as a failure of the next layer.
CreateInstanceRegistersUnlessOOM(res) == res # VK_ERROR_OUT_OF_HOST_MEMORY

\* Whether CreateInstance goes on to build and register a table (line 193).
CreateInstanceRegisters(res) == res = VK_SUCCESS

\* Lines 193-206, back in this layer: a failure is returned as it is; a success
\* builds the dispatch table from the resolver read in the prologue and
\* registers it, and a failed registration is reported as out of host memory.
CI_Return(t) ==
    /\ pc[t] = "ci_result"
    /\ IF ~CreateInstanceRegisters(loc[t].res)
       THEN /\ Goto(t, "done", [loc[t] EXCEPT !.layer = 1])
            /\ UNCHANGED <<instance_dispatch_map_, instance_keys_map_, createResult>>
       ELSE \E ok \in BOOLEAN :
              LET dispatch_table == get_dispatch_table(loc[t].get_proc_addr[1]) IN
              /\ AddInstance(loc[t].handle, dispatch_table, ok)
              /\ createResult' =
                     [createResult EXCEPT ![loc[t].handle] = CreateInstanceResult(ok)]
              /\ Goto(t, "done", [loc[t] EXCEPT !.layer = 1,
                                                !.dispatch_table = dispatch_table,
                                                !.added = IF ok THEN "true" ELSE "false",
                                                !.res = CreateInstanceResult(ok)])
    /\ UNCHANGED <<device_dispatch_map_, shader_hash_map_, driver, destroyedShaders>>

\* The record that a registered instance was removed.
Removed(instance) ==
    [createResult EXCEPT ![instance] = IF @ = VK_SUCCESS THEN "removed" ELSE @]

\* ------------------------------------------------------------------------
\* LayerData::RemoveInstance, called on any instance handle, registered or not.
CallRemoveInstance(t) ==
    /\ Free(t)
    /\ \E instance \in InstanceHandles :
         /\ RemoveInstance(instance)
         /\ createResult' = Removed(instance)
         /\ Goto(t, "done", [NoCall EXCEPT !.op = "RemoveInstance", !.instance = instance])
    /\ UNCHANGED <<device_dispatch_map_, shader_hash_map_, driver, destroyedShaders>>

\* The intercepted vkDestroyInstance, on an instance the application holds and
\* no other thread is destroying: the registry entries are removed, then the
\* destroy is forwarded to the next layer.
CallDestroyInstance(t) ==
    /\ Free(t)
    /\ \E instance \in liveInstances :
         /\ \A u \in Threads : ~(pc[u] = "di_forward" /\ loc[u].instance = instance)
         /\ createResult[instance] \in {VK_SUCCESS, "removed"}
         /\ RemoveInstance(instance)
         /\ createResult' = Removed(instance)
         /\ Goto(t, "di_forward", [NoCall EXCEPT !.op = "DestroyInstance", !.instance = instance])
    /\ UNCHANGED <<device_dispatch_map_, shader_hash_map_, driver, destroyedShaders>>

DI_Forward(t) ==
    /\ pc[t] = "di_forward"
    /\ liveInstances' = liveInstances \ {loc[t].instance}
    /\ Goto(t, "done", loc[t])
    /\ UNCHANGED <<registry, shader_hash_map_, liveDevices, liveShaders,
                   createResult, destroyedShaders>>

\* ------------------------------------------------------------------------
\* LayerData::CreateDevice, on a physical device whose key is registered when
\* the call is made.

\* Lines 216-226 as run by layer `layer`: find the link record and read both
\* resolvers from its current element.
CreateDevicePrologue(l, layer) ==
    LET device_create_info == FindDeviceCreateInfo(l.create_info) IN
    IF device_create_info = 0
    THEN [l EXCEPT !.layer = layer, !.res = VK_ERROR_INITIALIZATION_FAILED]
    ELSE [l EXCEPT !.layer = layer,
                   !.link = device_create_info,
                   !.get_proc_addr =
                       Append(@, ReadInstanceResolver(l.create_info, device_create_info)),
                   !.get_device_proc_addr =
                       Append(@, ReadDeviceResolver(l.create_info, device_create_info)),
                   !.observed = Append(@, l.create_info[device_create_info].pLayerInfo)]

\* Line 231: the layer removes itself from the chain.
CreateDeviceAdvance(l) == [l EXCEPT !.create_info = AdvanceLayerInfo(@, l.link)]

CallCreateDevice(t) ==
    /\ Free(t)
    /\ \E physical_device \in PhysicalDeviceHandles, create_info \in Chains :
         /\ InstanceKey(physical_device) \in DOMAIN instance_keys_map_
         /\ LET l == CreateDevicePrologue(
                         [NoCall EXCEPT !.op = "CreateDevice",
                                        !.physical_device = physical_device,
                                        !.create_info = create_info], 1)
            IN Goto(t, IF l.res = "none" THEN "cd_getinstance" ELSE "done", l)
    /\ UNCHANGED <<registry, shader_hash_map_, driver, createResult, destroyedShaders>>

\* Lines 227-231: resolve the owning instance under the registry's lock, which
\* GetInstance releases when it returns; assert that there is one; advance.
CD_GetInstance(t) ==
    /\ pc[t] = "cd_getinstance"
    /\ LET instance == GetInstance(InstanceKey(loc[t].physical_device)) IN
         IF instance = VK_NULL_HANDLE
         THEN Abort
         ELSE Goto(t, "cd_call", CreateDeviceAdvance([loc[t] EXCEPT !.instance = instance]))
    /\ UNCHANGED <<registry, shader_hash_map_, driver, createResult, destroyedShaders>>

\* Lines 232-236, the call going to a layer below, which runs its own prologue
\* (its registry is another LayerData).
CD_InvokeNextLayer(t) ==
    /\ pc[t] = "cd_call"
    /\ Target(loc[t]) # Driver
    /\ IF Target(loc[t]) \in 2..NumLayers
       THEN LET l == CreateDevicePrologue([loc[t] EXCEPT !.invoked = TRUE], Target(loc[t]))
            IN IF l.res = "none"
               THEN Goto(t, "cd_call", CreateDeviceAdvance(l))
               ELSE Goto(t, "cd_result", l)
       ELSE Abort
    /\ UNCHANGED <<registry, shader_hash_map_, driver, createResult, destroyedShaders>>

\* Lines 232-236, the call reaching the driver's vkCreateDevice: it fails, or
\* hands out a handle it does not hold.
DriverCreateDevice(t) ==
    /\ pc[t] = "cd_call"
    /\ Target(loc[t]) = Driver
    /\ \E res \in NextResults :
         IF res = VK_SUCCESS
         THEN \E h \in DeviceHandles \ liveDevices :
                /\ liveDevices' = liveDevices \cup {h}
                /\ createResult' = [createResult EXCEPT ![h] = "pending"]
                /\ Goto(t, "cd_result",
                        [loc[t] EXCEPT !.res = res, !.handle = h, !.invoked = TRUE])
         ELSE /\ Goto(t, "cd_result", [loc[t] EXCEPT !.res = res, !.invoked = TRUE])
              /\ UNCHANGED <<liveDevices, createResult>>
    /\ UNCHANGED <<registry, shader_hash_map_, liveInstances, liveShaders, destroyedShaders>>

\* What CreateDevice returns after AddDevice (lines 247-250).
CreateDeviceResult(added) ==
    IF ~added THEN VK_ERROR_OUT_OF_HOST_MEMORY ELSE VK_SUCCESS

\* Whether CreateDevice goes on to build and register a table (line 238).
CreateDeviceRegisters(res) == res = VK_SUCCESS

\* Lines 238-250, back in this layer: a failure is returned as it is; a success
\* builds the dispatch table from the device resolver read in the prologue and
\* registers it, and a failed registration is reported as out of host memory.
CD_Return(t) ==
    /\ pc[t] = "cd_result"
    /\ IF ~CreateDeviceRegisters(loc[t].res)
       THEN /\ Goto(t, "done", [loc[t] EXCEPT !.layer = 1])
            /\ UNCHANGED <<device_dispatch_map_, createResult>>
       ELSE \E ok \in BOOLEAN :
              LET dispatch_table == get_dispatch_table(loc[t].get_device_proc_addr[1]) IN
              /\ AddDevice(loc[t].handle, dispatch_table, ok)
              /\ createResult' =
                     [createResult EXCEPT ![loc[t].handle] = CreateDeviceResult(ok)]
              /\ Goto(t, "done", [loc[t] EXCEPT !.layer = 1,
                                                !.dispatch_table = dispatch_table,
                                                !.added = IF ok THEN "true" ELSE "false",
                                                !.res = CreateDeviceResult(ok)])
    /\ UNCHANGED <<instance_dispatch_map_, instance_keys_map_, shader_hash_map_,
                   driver, destroyedShaders>>

\* ------------------------------------------------------------------------
Next ==
    \/ \E t \in Threads : CallCreateInstance(t)
    \/ \E t \in Threads : CI_InvokeNextLayer(t)
    \/ \E t \in Threads : DriverCreateInstance(t)
    \/ \E t \in Threads : CI_Return(t)
    \/ \E t \in Threads : CallRemoveInstance(t)
    \/ \E t \in Threads : CallDestroyInstance(t)
    \/ \E t \in Threads : DI_Forward(t)
    \/ \E t \in Threads : CallCreateDevice(t)
    \/ \E t \in Threads : CD_GetInstance(t)
    \/ \E t \in Threads : CD_InvokeNextLayer(t)
    \/ \E t \in Threads : DriverCreateDevice(t)
    \/ \E t \in Threads : CD_Return(t)

Spec == Init /\ [][Next]_vars

ConcSpec == ConcInit /\ [][Next]_vars

\* ------------------------------------------------------------------------
\* Shader modules.

\* The shader binaries a caller hands in, and what the driver's
\* vkCreateShaderModule can return.
Codes == 1..NumCodes
ShaderResults == {VK_SUCCESS, VK_ERROR_OUT_OF_HOST_MEMORY}

\* The 64-bit fingerprint of a shader binary: deterministic, and different for
\* the binaries of the model.
Fingerprint64(code) == 1000003 * code + 12345

\* HashShader(shader, code, size): fingerprints the binary and stores the hash
\* under the module's handle (insert_or_assign under shader_hash_lock_).
HashShader(shader, code) == InsertOrAssign(shader_hash_map_, shader, Fingerprint64(code))

\* EraseShader(shader): erases the handle's hash under shader_hash_lock_.
EraseShader(shader) == Erase(shader_hash_map_, shader)

\* The registry with one instance and one device of it registered, as
\* CreateInstance and CreateDevice leave it, and NumThreads application threads.
ShaderInit ==
    LET instance == [kind |-> "VkInstance", id |-> 1]
        device == [kind |-> "VkDevice", id |-> 1] IN
    /\ instance_dispatch_map_ =
           InsertOrAssign(EmptyMap, InstanceKey(instance),
                          get_dispatch_table(LayerInfo(1).pfnNextGetInstanceProcAddr))
    /\ instance_keys_map_ = InsertOrAssign(EmptyMap, InstanceKey(instance), instance)
    /\ device_dispatch_map_ =
           InsertOrAssign(EmptyMap, device,
                          get_dispatch_table(LayerInfo(1).pfnNextGetDeviceProcAddr))
    /\ shader_hash_map_ = EmptyMap
    /\ liveInstances = {instance}
    /\ liveDevices = {device}
    /\ liveShaders = {}
    /\ createResult = [h \in InstanceHandles \cup DeviceHandles |->
                          IF h \in {instance, device} THEN VK_SUCCESS ELSE "none"]
    /\ destroyedShaders = {}
    /\ maxChain = ConcChainLen
    /\ pc = [t \in 1..NumThreads |-> "idle"]
    /\ loc = [t \in 1..NumThreads |-> NoCall]
    /\ LoggingIdle

\* LayerData::CreateShaderModule, lines 256-258: look up the next layer's
\* vkCreateShaderModule in the device's table.  *shader_module holds whatever
\* the caller left there: a null handle or the handle of an earlier module.
CallCreateShaderModule(t) ==
    /\ Free(t)
    /\ \E device \in DOMAIN device_dispatch_map_, code \in Codes,
          shader_module \in ShaderHandles \cup {VK_NULL_HANDLE} :
         Goto(t, "sm_call", [NoCall EXCEPT !.op = "CreateShaderModule",
                                           !.device = device,
                                           !.code = code,
                                           !.handle = shader_module])
    /\ UNCHANGED <<registry, shader_hash_map_, driver, createResult, destroyedShaders>>

\* Line 259, the next layer's vkCreateShaderModule: it hands out a handle it
\* does not hold, or fails and leaves *shader_module as it was.
DriverCreateShaderModule(t) ==
    /\ pc[t] = "sm_call"
    /\ \E res \in ShaderResults :
         IF res = VK_SUCCESS
         THEN \E h \in ShaderHandles \ liveShaders :
                /\ liveShaders' = liveShaders \cup {h}
                /\ destroyedShaders' = destroyedShaders \ {h}
                /\ Goto(t, "sm_hash", [loc[t] EXCEPT !.res = res, !.handle = h])
         ELSE /\ Goto(t, "sm_hash", [loc[t] EXCEPT !.res = res])
              /\ UNCHANGED <<liveShaders, destroyedShaders>>
    /\ UNCHANGED <<registry, shader_hash_map_, liveInstances, liveDevices, createResult>>

\* Lines 260-263: hash *shader_module with the binary, whatever the result
\* was, and return {result, hash, start, end}.
SM_HashShader(t) ==
    /\ pc[t] = "sm_hash"
    /\ shader_hash_map_' = HashShader(loc[t].handle, loc[t].code)
    /\ Goto(t, "done", [loc[t] EXCEPT !.hash = Fingerprint64(loc[t].code)])
    /\ UNCHANGED <<registry, driver, createResult, destroyedShaders>>

\* A destroy that forwards before it erases.
DestroyStepsForwardFirst == <<"ds_forward", "ds_erase">>

\* LayerData::DestroyShaderModule, lines 271-272: erase the hash, then forward.
DestroySteps == <<"ds_erase", "ds_forward">>

\* Where a destroy goes after one of its two steps.
StepAfter(step) == IF step = DestroySteps[1] THEN DestroySteps[2] ELSE "done"

\* LayerData::DestroyShaderModule, lines 269-270, on a module the application
\* holds and no other thread is destroying: look up the next layer's
\* vkDestroyShaderModule in the device's table.
CallDestroyShaderModule(t) ==
    /\ Free(t)
    /\ \E device \in DOMAIN device_dispatch_map_, shader_module \in liveShaders :
         /\ \A u \in Threads :
              ~(loc[u].handle = shader_module /\ pc[u] \in {"sm_hash", "ds_erase", "ds_forward"})
         /\ Goto(t, DestroySteps[1], [NoCall EXCEPT !.op = "DestroyShaderModule",
                                               !.device = device,
                                               !.handle = shader_module])
    /\ UNCHANGED <<registry, shader_hash_map_, driver, createResult, destroyedShaders>>

\* Line 271: erase the module's hash.
DS_EraseShader(t) ==
    /\ pc[t] = "ds_erase"
    /\ shader_hash_map_' = EraseShader(loc[t].handle)
    /\ destroyedShaders' = destroyedShaders \cup {loc[t].handle}
    /\ Goto(t, StepAfter("ds_erase"), loc[t])
    /\ UNCHANGED <<registry, driver, createResult>>

\* Line 272: forward the destroy to the next layer.
DS_Forward(t) ==
    /\ pc[t] = "ds_forward"
    /\ liveShaders' = liveShaders \ {loc[t].handle}
    /\ Goto(t, StepAfter("ds_forward"), loc[t])
    /\ UNCHANGED <<registry, shader_hash_map_, liveInstances, liveDevices,
                   createResult, destroyedShaders>>

ShaderNext ==
    \/ \E t \in Threads : CallCreateShaderModule(t)
    \/ \E t \in Threads : DriverCreateShaderModule(t)
    \/ \E t \in Threads : SM_HashShader(t)
    \/ \E t \in Threads : CallDestroyShaderModule(t)
    \/ \E t \in Threads : DS_EraseShader(t)
    \/ \E t \in Threads : DS_Forward(t)

ShaderSpec == ShaderInit /\ [][ShaderNext]_vars

\* ------------------------------------------------------------------------
\* Logging: the sinks of a registry built with a log file name and a header.

\* What the callers hand in.
EventTypes == {"compile", "present"}
Lines == {"a,1", "b"}
Headers == {"event,pipeline_hash,time_delta"}
ExtraContents == {"", "x"}
Prefixes == {"42"}
Timestamps == {1700000000}
Hashes == {0, 1, 2, 255}

\* The pipelines of up to n shader hashes.
HashVectorsUpTo(n) == UNION {[1..k -> Hashes] : k \in 0..n}
HashVectors == {<<>>, <<0>>, <<255>>, <<1, 2>>} \cap HashVectorsUpTo(MaxPipeline)

\* CsvCat(a, b): the fields joined by a comma.
CsvCat(a, b) == a \o "," \o b

\* ToUnixNanos(timestamp): the time point as a count of nanoseconds.
ToUnixNanos(timestamp) == ToString(timestamp)

\* A prefix without the time.
MakeEventLogPrefixNoTime(event_type, timestamp) == event_type

\* MakeEventLogPrefix, lines 34-38.
MakeEventLogPrefix(event_type, timestamp) == CsvCat(event_type, ToUnixNanos(timestamp))

\* The digits of `%x`: lowercase, no leading zeros, "0" for zero.
HexDigit(d) == SubSeq("0123456789abcdef", d + 1, d + 1)
RECURSIVE HexDigits(_)
HexDigits(n) == IF n < 16 THEN HexDigit(n) ELSE HexDigits(n \div 16) \o HexDigit(n % 16)

\* LayerData::ShaderHashToString, lines 160-162: StrFormat("%#x", hash).  The
\* '#' flag prefixes 0x to a non-zero result only.
ShaderHashToString(hash) == IF hash = 0 THEN HexDigits(hash) ELSE "0x" \o HexDigits(hash)

\* absl::StrJoin(pipeline, ",", ShaderHashToString), lines 166-170.
RECURSIVE StrJoin(_)
StrJoin(pipeline) ==
    IF Len(pipeline) = 0 THEN ""
    ELSE IF Len(pipeline) = 1 THEN ShaderHashToString(pipeline[1])
    ELSE ShaderHashToString(pipeline[1]) \o "," \o StrJoin(Tail(pipeline))

\* LayerData::PipelineHashToString, lines 164-172.
PipelineHashToString(pipeline) == "[" \o StrJoin(pipeline) \o "]"

\* std::quoted of a text without quotes and backslashes, as the hash list is.
Quoted(text) == "\"" \o text \o "\""

\* LayerData::Log, lines 129-132: the line handed to LogLine.
PipelineAndContent(pipeline, prefix) == CsvCat(Quoted(PipelineHashToString(pipeline)), prefix)

\* An event line that always has a third cell.
EventOnlyLineAlwaysCat(prefix, extra_content) == CsvCat(prefix, extra_content)

\* LayerData::LogEventOnly, lines 154-156: the prefix alone if there is no
\* extra content.
EventOnlyLine(prefix, extra_content) ==
    IF extra_content = "" THEN prefix ELSE CsvCat(prefix, extra_content)

\* A write that ends the line elsewhere.
WriteLnUnterminated(text, content) == text \o content

\* What WriteLnAndFlush makes of a sink's content: the line and a newline.
WriteLn(text, content) == text \o content \o "\n"

\* WriteLnAndFlush(file, content): one atomic write-and-flush of a whole line.
WriteLnAndFlush(file, content) ==
    /\ files' = [files EXCEPT ![file] = WriteLn(@, content)]
    /\ written' = [written EXCEPT ![file] = Append(@, content)]

\* A constructor that gives up when the file does not open.
PrimarySinkOrNull(log_filename, opened) ==
    IF log_filename # "null" /\ opened THEN "file" ELSE "null"

\* Lines 90-99: the named file if it opened, standard error otherwise.
PrimarySink(log_filename, opened) ==
    IF log_filename # "null"
    THEN IF opened THEN "file" ELSE "stderr"
    ELSE "stderr"

\* Lines 103-109: the secondary sink, if the variable is set and the file opens.
EventLog(event_log_file, opened) ==
    IF event_log_file # "null" /\ opened THEN "event_file" ELSE "null"

\* The dispatch side of a registry nobody creates anything through.
DispatchIdle ==
    /\ instance_dispatch_map_ = EmptyMap
    /\ instance_keys_map_ = EmptyMap
    /\ device_dispatch_map_ = EmptyMap
    /\ shader_hash_map_ = EmptyMap
    /\ liveInstances = {}
    /\ liveDevices = {}
    /\ liveShaders = {}
    /\ createResult = [h \in InstanceHandles \cup DeviceHandles |-> "none"]
    /\ destroyedShaders = {}
    /\ maxChain = 0
    /\ pc = [t \in {} |-> "idle"]
    /\ loc = [t \in {} |-> NoCall]

\* Before the constructor runs: standard error, and the files an earlier run
\* may have left.
LogInit ==
    /\ DispatchIdle
    /\ out_ = "unbuilt"
    /\ event_log_ = "null"
    /\ \E stale \in SUBSET {"file", "event_file"} :
         /\ files = [f \in {"stderr"} \cup stale |-> IF f = "stderr" THEN "" ELSE "stale\n"]
         /\ written = [f \in {"stderr"} \cup stale |-> IF f = "stderr" THEN <<>> ELSE <<"stale">>]
    /\ ctor = [log_filename |-> "null", opened |-> FALSE, header |-> ""]
    /\ spl_log = <<>>
    /\ last_log_time_ = TimePointMin
    /\ log_time_lock_ = 0
    /\ clock = 0
    /\ deltas = <<>>
    /\ closes = [f \in {"file", "stderr"} |-> 0]
    /\ end_logs = 0
    /\ lpc = [t \in 1..NumThreads |-> "idle"]
    /\ lloc = [t \in 1..NumThreads |-> NoLogCall]

LogThreads == DOMAIN lpc
LogFree(t) == lpc[t] \in {"idle", "done"}

LogGoto(t, to, locals) ==
    /\ lpc' = [lpc EXCEPT ![t] = to]
    /\ lloc' = [lloc EXCEPT ![t] = locals]

\* The sinks take no more lines than the model's bound.
Room == \A f \in DOMAIN written : Len(written[f]) <= MaxLines

\* fopen(name, "w"): the file exists and is empty.
Truncated(map, name, empty) == [f \in DOMAIN map \cup {name} |-> IF f = name THEN empty ELSE map[f]]

\* fopen(name, "a"): the file exists, with the content it had.
Created(map, name, empty) ==
    [f \in DOMAIN map \cup {name} |-> IF f \in DOMAIN map THEN map[f] ELSE empty]

\* LayerData::LayerData(log_filename, header), lines 89-110.
Construct ==
    /\ out_ = "unbuilt"
    /\ \E log_filename \in {"null", "file"}, opened \in BOOLEAN, header \in Headers,
          event_log_file \in {"null", "event_file"}, event_opened \in BOOLEAN :
         LET sink == PrimarySink(log_filename, opened)
             event == EventLog(event_log_file, event_opened)
             files1 == IF sink = "file" THEN Truncated(files, "file", "") ELSE files
             written1 == IF sink = "file" THEN Truncated(written, "file", <<>>) ELSE written
             files2 == [files1 EXCEPT ![sink] = WriteLn(@, header)]
             written2 == [written1 EXCEPT ![sink] = Append(@, header)]
         IN /\ (log_filename = "null" => ~opened)
            /\ (event_log_file = "null" => ~event_opened)
            /\ out_' = sink
            /\ spl_log' = IF log_filename # "null" /\ ~opened
                          THEN Append(spl_log, "Failed to open file, output will be to STDERR.")
                          ELSE spl_log
            /\ event_log_' = event
            /\ files' = IF event = "event_file" THEN Created(files2, "event_file", "") ELSE files2
            /\ written' = IF event = "event_file"
                          THEN Created(written2, "event_file", <<>>) ELSE written2
            /\ ctor' = [log_filename |-> log_filename, opened |-> opened, header |-> header]
    /\ UNCHANGED <<dispatching, timing, closes, end_logs, lpc, lloc>>

\* LayerData::LogLine, line 122: the line goes to the primary sink.
LogLinePrimary(t, l) ==
    /\ WriteLnAndFlush(out_, l.line)
    /\ LogGoto(t, "ll_event", l)
    /\ UNCHANGED <<dispatching, out_, event_log_, ctor, spl_log, timing, closes, end_logs>>

CallLogLine(t) ==
    /\ LogFree(t) /\ out_ # "unbuilt" /\ Room
    /\ \E event_type \in EventTypes, line \in Lines, timestamp \in Timestamps :
         LogLinePrimary(t, [NoLogCall EXCEPT !.op = "LogLine",
                                             !.event_type = event_type,
                                             !.line = line,
                                             !.timestamp = timestamp])

\* LayerData::Log, lines 127-134: format the pipeline and call LogLine with
\* the current time.
CallLog(t) ==
    /\ LogFree(t) /\ out_ # "unbuilt" /\ Room
    /\ \E event_type \in EventTypes, pipeline \in HashVectors, prefix \in Prefixes,
          timestamp \in Timestamps :
         LogLinePrimary(t, [NoLogCall EXCEPT !.op = "Log",
                                             !.event_type = event_type,
                                             !.pipeline = pipeline,
                                             !.prefix = prefix,
                                             !.line = PipelineAndContent(pipeline, prefix),
                                             !.timestamp = timestamp])

\* LayerData::LogLine, lines 123-124: the event line, if there is a secondary sink.
LL_EventLog(t) ==
    /\ lpc[t] = "ll_event"
    /\ IF event_log_ # "null"
       THEN WriteLnAndFlush(event_log_,
                            CsvCat(MakeEventLogPrefix(lloc[t].event_type, lloc[t].timestamp),
                                   lloc[t].line))
       ELSE UNCHANGED <<files, written>>
    /\ LogGoto(t, "done", lloc[t])
    /\ UNCHANGED <<dispatching, out_, event_log_, ctor, spl_log, timing, closes, end_logs>>

\* LayerData::LogEventOnly, lines 150-158.
CallLogEventOnly(t) ==
    /\ LogFree(t) /\ out_ # "unbuilt" /\ Room
    /\ \E event_type \in EventTypes, extra_content \in ExtraContents,
          timestamp \in Timestamps :
         /\ IF event_log_ # "null"
            THEN WriteLnAndFlush(event_log_,
                                 EventOnlyLine(MakeEventLogPrefix(event_type, timestamp),
                                               extra_content))
            ELSE UNCHANGED <<files, written>>
         /\ LogGoto(t, "done", [NoLogCall EXCEPT !.op = "LogEventOnly",
                                                 !.event_type = event_type,
                                                 !.extra_content = extra_content,
                                                 !.timestamp = timestamp])
    /\ UNCHANGED <<dispatching, out_, event_log_, ctor, spl_log, timing, closes, end_logs>>

LogNext ==
    \/ Construct
    \/ \E t \in LogThreads : CallLogLine(t)
    \/ \E t \in LogThreads : CallLog(t)
    \/ \E t \in LogThreads : LL_EventLog(t)
    \/ \E t \in LogThreads : CallLogEventOnly(t)

LogSpec == LogInit /\ [][LogNext]_vars

\* ------------------------------------------------------------------------
\* LayerData::GetTimeDelta, lines 136-148.

\* A lock nobody has to wait for.
UnlockedAlways(holder) == TRUE

\* absl::MutexLock lock(&log_time_lock_), line 137: the lock can be taken.
Unlocked(holder) == holder = 0

\* A delta taken against whatever is stored.
LoggedDeltaUnguarded(now, last) == now - last

\* Lines 139-144: the minimum duration unless a time was stored before.
LoggedDelta(now, last) == IF last # TimePointMin THEN now - last ELSE DurationMin

\* A fresh registry, its clock running, and NumThreads threads.
TimeInit ==
    /\ DispatchIdle
    /\ out_ = "stderr"
    /\ event_log_ = "null"
    /\ files = [f \in {"stderr"} |-> ""]
    /\ written = [f \in {"stderr"} |-> <<>>]
    /\ ctor = [log_filename |-> "null", opened |-> FALSE, header |-> ""]
    /\ spl_log = <<>>
    /\ last_log_time_ = TimePointMin
    /\ log_time_lock_ = 0
    /\ clock \in {0, 1}
    /\ deltas = <<>>
    /\ closes = [f \in {"file", "stderr"} |-> 0]
    /\ end_logs = 0
    /\ lpc = [t \in 1..NumThreads |-> "idle"]
    /\ lloc = [t \in 1..NumThreads |-> NoLogCall]

\* The monotonic clock moves on.
Tick ==
    /\ clock < MaxClock
    /\ clock' = clock + 1
    /\ UNCHANGED <<dispatching, sinks, last_log_time_, log_time_lock_, deltas, closes, end_logs, lpc, lloc>>

\* Line 137: take log_time_lock_.
GTD_Lock(t) ==
    /\ LogFree(t)
    /\ Len(deltas) + Cardinality({u \in LogThreads : ~LogFree(u)}) < MaxDeltas
    /\ Unlocked(log_time_lock_)
    /\ log_time_lock_' = t
    /\ LogGoto(t, "gtd_now", [NoLogCall EXCEPT !.op = "GetTimeDelta"])
    /\ UNCHANGED <<dispatching, sinks, last_log_time_, clock, deltas, closes, end_logs>>

\* Line 138: read the clock.
GTD_Now(t) ==
    /\ lpc[t] = "gtd_now"
    /\ LogGoto(t, "gtd_delta", [lloc[t] EXCEPT !.now = clock])
    /\ UNCHANGED <<dispatching, sinks, timing, closes, end_logs>>

\* Lines 139-144: read last_log_time_ and compute the delta.
GTD_Delta(t) ==
    /\ lpc[t] = "gtd_delta"
    /\ LogGoto(t, "gtd_store", [lloc[t] EXCEPT !.previous = last_log_time_,
                                               !.logged_delta =
                                                   LoggedDelta(lloc[t].now, last_log_time_)])
    /\ UNCHANGED <<dispatching, sinks, timing, closes, end_logs>>

\* Lines 146-148: store the reading, return the delta, release the lock.
GTD_Return(t) ==
    /\ lpc[t] = "gtd_store"
    /\ last_log_time_' = lloc[t].now
    /\ log_time_lock_' = 0
    /\ deltas' = Append(deltas, [thread |-> t, now |-> lloc[t].now,
                                 previous |-> lloc[t].previous,
                                 logged_delta |-> lloc[t].logged_delta])
    /\ LogGoto(t, "done", [lloc[t] EXCEPT !.res = "returned"])
    /\ UNCHANGED <<dispatching, sinks, clock, closes, end_logs>>

TimeNext ==
    \/ Tick
    \/ \E t \in LogThreads : GTD_Lock(t)
    \/ \E t \in LogThreads : GTD_Now(t)
    \/ \E t \in LogThreads : GTD_Delta(t)
    \/ \E t \in LogThreads : GTD_Return(t)

TimeSpec == TimeInit /\ [][TimeNext]_vars

\* ------------------------------------------------------------------------
\* CommonLogger (common_logging.h).  Its out_ is the logger's own stream.

\* The events a caller adds: a name and its attributes.
Events ==
    {[name |-> "frame_present", attributes |-> <<>>],
     [name |-> "compile", attributes |-> <<[name |-> "hash", value |-> "0x1"]>>]}

\* EventToCommonLogStr(event): `name,attribute:value,...`.
RECURSIVE AttributesToStr(_)
AttributesToStr(attributes) ==
    IF Len(attributes) = 0 THEN ""
    ELSE "," \o attributes[1].name \o ":" \o attributes[1].value
             \o AttributesToStr(Tail(attributes))
EventToCommonLogStr(event) == event.name \o AttributesToStr(event.attributes)

\* A close that leaves the pointer as it was.
AfterCloseKept(stream) == stream

\* Line 49: out_ = nullptr once the stream is closed.
AfterClose(stream) == "null"

\* The logger as CommonLogger(filename) leaves it: on the file, or on standard
\* error if no name was given.
LoggerInit ==
    /\ DispatchIdle
    /\ \E filename \in {"null", "file"} :
         /\ out_ = IF filename = "null" THEN "stderr" ELSE "file"
         /\ files = [f \in {"stderr", out_} |-> ""]
         /\ written = [f \in {"stderr", out_} |-> <<>>]
         /\ ctor = [log_filename |-> filename, opened |-> filename # "null", header |-> ""]
    /\ event_log_ = "null"
    /\ spl_log = <<>>
    /\ last_log_time_ = TimePointMin
    /\ log_time_lock_ = 0
    /\ clock = 0
    /\ deltas = <<>>
    /\ closes = [f \in {"file", "stderr"} |-> 0]
    /\ end_logs = 0
    /\ lpc = [t \in {1} |-> "idle"]
    /\ lloc = [t \in {1} |-> NoLogCall]

\* A failed assert(out_): the process ends.
LoggerAbort(op) ==
    /\ lpc' = [t \in LogThreads |-> "aborted"]
    /\ lloc' = [t \in LogThreads |-> [NoLogCall EXCEPT !.op = op]]
    /\ UNCHANGED <<dispatching, sinks, timing, closes, end_logs>>

\* CommonLogger::AddEvent, lines 38-42.
AddEvent ==
    /\ LogFree(1)
    /\ \E event \in Events :
         IF out_ = "null"
         THEN LoggerAbort("AddEvent")
         ELSE /\ Len(written[out_]) < MaxEvents
              /\ WriteLnAndFlush(out_, EventToCommonLogStr(event))
              /\ LogGoto(1, "done", [NoLogCall EXCEPT !.op = "AddEvent",
                                                      !.line = EventToCommonLogStr(event)])
              /\ UNCHANGED <<dispatching, out_, event_log_, ctor, spl_log, timing,
                             closes, end_logs>>

\* CommonLogger::Flush, lines 53-56.  Where assert is compiled out,
\* fflush(nullptr) flushes every stream and returns.
Flush ==
    /\ LogFree(1)
    /\ \/ /\ out_ = "null"
          /\ LoggerAbort("Flush")
       \/ /\ LogGoto(1, "done", [NoLogCall EXCEPT !.op = "Flush"])
          /\ UNCHANGED <<dispatching, sinks, timing, closes, end_logs>>

\* CommonLogger::EndLog, lines 46-51.
EndLog ==
    /\ LogFree(1)
    /\ end_logs < MaxEndLogs
    /\ end_logs' = end_logs + 1
    /\ IF out_ # "null" /\ out_ # "stderr"
       THEN /\ closes' = [closes EXCEPT ![out_] = @ + 1]
            /\ out_' = AfterClose(out_)
       ELSE UNCHANGED <<closes, out_>>
    /\ LogGoto(1, "done", [NoLogCall EXCEPT !.op = "EndLog"])
    /\ UNCHANGED <<dispatching, event_log_, files, written, ctor, spl_log, timing>>

LoggerNext ==
    \/ AddEvent
    \/ Flush
    \/ EndLog

LoggerSpec == LoggerInit /\ [][LoggerNext]_vars

\* ------------------------------------------------------------------------
\* Properties.

Creates == {"CreateInstance", "CreateDevice"}

\* The chain holds no record with this structure type and the link function.
NoLinkRecord(create_info, sType) ==
    \A i \in 1..Len(create_info) :
        ~(create_info[i].sType = sType /\ create_info[i].function = VK_LAYER_LINK_INFO)

\* Thread t makes a call of `op` in this step.
Called(t, op) ==
    /\ Free(t)
    /\ pc'[t] # "aborted"
    /\ loc'[t].op = op
    /\ <<pc[t], loc[t]>> # <<pc'[t], loc'[t]>>

\* The call returned an initialization failure in the same step, with nothing
\* called below, the chain as the loader built it and nothing registered.
FailedAtOnce(t) ==
    /\ pc'[t] = "done"
    /\ loc'[t].res = VK_ERROR_INITIALIZATION_FAILED
    /\ ~loc'[t].invoked
    /\ loc'[t].create_info \in Chains
    /\ UNCHANGED <<registry, driver>>

\* C1: CreateInstance (CreateDevice) on a chain without a loader instance
\* (device) link record returns VK_ERROR_INITIALIZATION_FAILED without calling
\* the next layer, without modifying the chain and without changing a registry.
C1_NoLinkRecordFails ==
    [][\A t \in Threads :
         /\ (Called(t, "CreateInstance")
             /\ NoLinkRecord(loc'[t].create_info, LOADER_INSTANCE_CREATE_INFO))
            => FailedAtOnce(t)
         /\ (Called(t, "CreateDevice")
             /\ NoLinkRecord(loc'[t].create_info, LOADER_DEVICE_CREATE_INFO))
            => FailedAtOnce(t)]_vars

\* A CreateInstance has failed on a chain of two near misses (the right
\* structure type with another function, the link function with another
\* structure type) while the registry holds an instance.
C1_Witness ==
    \E t \in Threads :
        /\ pc[t] = "done"
        /\ loc[t].op = "CreateInstance"
        /\ loc[t].res = VK_ERROR_INITIALIZATION_FAILED
        /\ Len(loc[t].create_info) = 2
        /\ loc[t].create_info[1].sType = LOADER_INSTANCE_CREATE_INFO
        /\ loc[t].create_info[1].function = VK_LOADER_DATA_CALLBACK
        /\ loc[t].create_info[2].sType = LOADER_DEVICE_CREATE_INFO
        /\ loc[t].create_info[2].function = VK_LAYER_LINK_INFO
        /\ DOMAIN instance_dispatch_map_ # {}

\* C2: when the next layer's create call returns a code other than
\* VK_SUCCESS, CreateInstance and CreateDevice return that code, build no
\* dispatch table and leave every registry as it is.
C2_UpstreamFailurePropagates ==
    [][\A t \in Threads :
         (/\ pc[t] \in {"ci_result", "cd_result"}
          /\ loc[t].res # VK_SUCCESS
          /\ pc'[t] \notin {pc[t], "aborted"})
         => /\ pc'[t] = "done"
            /\ loc'[t].res = loc[t].res
            /\ loc'[t].dispatch_table = NoTable
            /\ loc'[t].added = "none"
            /\ UNCHANGED registry]_vars

\* A create call has returned the driver's VK_ERROR_INCOMPATIBLE_DRIVER while
\* the registry holds an instance.
C2_Witness ==
    \E t \in Threads :
        /\ pc[t] = "done"
        /\ loc[t].op \in Creates
        /\ loc[t].invoked
        /\ loc[t].res = VK_ERROR_INCOMPATIBLE_DRIVER
        /\ DOMAIN instance_dispatch_map_ # {}

\* The table this layer registers: built from the resolvers of its own
\* element, the first of the loader's list.
ExpectedInstanceTable == [next |-> [fn |-> "vkGetInstanceProcAddr", of |-> 2]]
ExpectedDeviceTable == [next |-> [fn |-> "vkGetDeviceProcAddr", of |-> 2]]

\* C3: a handle has a dispatch-table entry exactly when the last create call
\* that produced it returned VK_SUCCESS and it was not removed since; and a
\* create call returns VK_SUCCESS exactly when the next layer's create
\* succeeded and the table built from the resolver is registered for the
\* handle it returned.
C3_EntryIffCreateSucceeded ==
    /\ \A h \in InstanceHandles :
         InstanceKey(h) \in DOMAIN instance_dispatch_map_ <=> createResult[h] = VK_SUCCESS
    /\ \A d \in DeviceHandles :
         d \in DOMAIN device_dispatch_map_ <=> createResult[d] = VK_SUCCESS
    /\ \A t \in Threads :
         /\ (pc[t] = "done" /\ loc[t].op = "CreateInstance")
            => (loc[t].res = VK_SUCCESS
                <=> /\ loc[t].handle \in liveInstances
                    /\ InstanceKey(loc[t].handle) \in DOMAIN instance_dispatch_map_
                    /\ instance_dispatch_map_[InstanceKey(loc[t].handle)] = ExpectedInstanceTable
                    /\ GetInstance(InstanceKey(loc[t].handle)) = loc[t].handle)
         /\ (pc[t] = "done" /\ loc[t].op = "CreateDevice")
            => (loc[t].res = VK_SUCCESS
                <=> /\ loc[t].handle \in liveDevices
                    /\ loc[t].handle \in DOMAIN device_dispatch_map_
                    /\ device_dispatch_map_[loc[t].handle] = ExpectedDeviceTable)

\* A CreateDevice has returned VK_SUCCESS after an instance was registered and
\* removed again.
C3_Witness ==
    /\ \E t \in Threads :
         pc[t] = "done" /\ loc[t].op = "CreateDevice" /\ loc[t].res = VK_SUCCESS
    /\ \E h \in InstanceHandles : createResult[h] = "removed"

\* C4: when the next layer's create succeeded and AddInstance (AddDevice)
\* returned false, the call returns VK_ERROR_OUT_OF_HOST_MEMORY, the created
\* object is not destroyed, and it has no entry in the registry.
C4_RegistrationFailureLeavesUntracked ==
    \A t \in Threads :
        /\ (pc[t] = "done" /\ loc[t].op = "CreateInstance" /\ loc[t].added = "false")
           => /\ loc[t].res = VK_ERROR_OUT_OF_HOST_MEMORY
              /\ loc[t].handle \in liveInstances
              /\ InstanceKey(loc[t].handle) \notin DOMAIN instance_dispatch_map_
              /\ InstanceKey(loc[t].handle) \notin DOMAIN instance_keys_map_
        /\ (pc[t] = "done" /\ loc[t].op = "CreateDevice" /\ loc[t].added = "false")
           => /\ loc[t].res = VK_ERROR_OUT_OF_HOST_MEMORY
              /\ loc[t].handle \in liveDevices
              /\ loc[t].handle \notin DOMAIN device_dispatch_map_

\* A CreateDevice has returned after AddDevice failed.
C4_Witness ==
    \E t \in Threads :
        pc[t] = "done" /\ loc[t].op = "CreateDevice" /\ loc[t].added = "false"

\* C5: every layer reads its resolvers from the link record's current
\* element, then advances the record by one element, then calls the next
\* create function: layer k observes the k-th element and no other, and the
\* chain a create call below layer k receives has layer k's element removed.
C5_LinkProtocolOrder ==
    \A t \in Threads :
        loc[t].op \in Creates
        => /\ \A k \in 1..Len(loc[t].observed) : loc[t].observed[k] = k
           /\ \A k \in 1..Len(loc[t].get_proc_addr) :
                loc[t].get_proc_addr[k] = [fn |-> "vkGetInstanceProcAddr", of |-> k + 1]
           /\ \A k \in 1..Len(loc[t].get_device_proc_addr) :
                loc[t].get_device_proc_addr[k] = [fn |-> "vkGetDeviceProcAddr", of |-> k + 1]
           /\ pc[t] \in {"ci_call", "cd_call"}
              => /\ Len(loc[t].observed) = loc[t].layer
                 /\ loc[t].create_info[loc[t].link].pLayerInfo =
                        IF loc[t].layer < NumLayers THEN loc[t].layer + 1 ELSE 0

\* The last layer of the stack is about to call the driver's vkCreateDevice.
C5_Witness ==
    \E t \in Threads :
        /\ pc[t] = "cd_call"
        /\ loc[t].layer = NumLayers
        /\ Len(loc[t].observed) = NumLayers

\* C6: after RemoveInstance(h) has returned, GetInstance finds nothing for the
\* key of h or of a physical device of h, and the instance dispatch map has no
\* entry for h.
C6_RemovedInstanceIsAbsent ==
    \A t \in Threads :
        (pc[t] = "done" /\ loc[t].op = "RemoveInstance")
        => /\ GetInstance(InstanceKey(loc[t].instance)) = VK_NULL_HANDLE
           /\ \A physical_device \in PhysicalDeviceHandles :
                physical_device.id = loc[t].instance.id
                => GetInstance(InstanceKey(physical_device)) = VK_NULL_HANDLE
           /\ InstanceKey(loc[t].instance) \notin DOMAIN instance_dispatch_map_

\* A registered instance has been removed while another one is registered.
C6_Witness ==
    \E t \in Threads :
        /\ pc[t] = "done"
        /\ loc[t].op = "RemoveInstance"
        /\ createResult[loc[t].instance] = "removed"
        /\ DOMAIN instance_keys_map_ # {}

\* C7: RemoveInstance(h) changes nothing when h is not registered, never
\* changes the entries of another instance or of a device, and done a second
\* time changes nothing more.
C7_RemoveInstanceFrame ==
    [][\A t \in Threads :
         (Free(t) /\ pc'[t] = "done" /\ loc'[t].op = "RemoveInstance")
         => LET key == InstanceKey(loc'[t].instance) IN
            /\ (key \notin DOMAIN instance_dispatch_map_ /\ key \notin DOMAIN instance_keys_map_)
               => UNCHANGED registry
            /\ DOMAIN instance_dispatch_map_' \subseteq DOMAIN instance_dispatch_map_
            /\ DOMAIN instance_keys_map_' \subseteq DOMAIN instance_keys_map_
            /\ \A k \in DOMAIN instance_dispatch_map_ \ {key} :
                 /\ k \in DOMAIN instance_dispatch_map_'
                 /\ instance_dispatch_map_'[k] = instance_dispatch_map_[k]
            /\ \A k \in DOMAIN instance_keys_map_ \ {key} :
                 /\ k \in DOMAIN instance_keys_map_'
                 /\ instance_keys_map_'[k] = instance_keys_map_[k]
            /\ UNCHANGED device_dispatch_map_
            /\ RemoveInstanceDispatch(instance_dispatch_map_', loc'[t].instance)
                 = instance_dispatch_map_'
            /\ RemoveInstanceKeys(instance_keys_map_', loc'[t].instance)
                 = instance_keys_map_']_vars

\* RemoveInstance has returned for a handle that was never registered while
\* the registry holds an instance and a device.
C7_Witness ==
    \E t \in Threads :
        /\ pc[t] = "done"
        /\ loc[t].op = "RemoveInstance"
        /\ createResult[loc[t].instance] = "none"
        /\ DOMAIN instance_dispatch_map_ # {}
        /\ DOMAIN device_dispatch_map_ # {}

\* Every key of the key map has a dispatch table and resolves to an instance
\* the driver still holds.
KeysResolveToLiveInstances ==
    /\ DOMAIN instance_keys_map_ = DOMAIN instance_dispatch_map_
    /\ \A k \in DOMAIN instance_keys_map_ :
         /\ InstanceKey(instance_keys_map_[k]) = k
         /\ instance_keys_map_[k] \in liveInstances

\* C8: an instance key in the key map resolves to a live instance that has a
\* dispatch table, in every state a thread can observe: also the instance a
\* CreateDevice resolved for its physical device is still live and registered
\* when the call uses it to resolve vkCreateDevice.
C8_ResolvedInstanceStaysRegistered ==
    /\ KeysResolveToLiveInstances
    /\ \A t \in Threads :
         (pc[t] = "cd_call" /\ loc[t].layer = 1)
         => /\ loc[t].instance \in liveInstances
            /\ InstanceKey(loc[t].instance) \in DOMAIN instance_dispatch_map_
            /\ GetInstance(InstanceKey(loc[t].instance)) = loc[t].instance

\* C9: every handle with an entry in the shader-hash table is a shader module
\* the next layer created and has not destroyed, whatever the create calls
\* returned.
C9_HashEntriesAreLiveModules ==
    DOMAIN shader_hash_map_ \subseteq liveShaders

\* C10: from the moment DestroyShaderModule has erased a module's hash, through
\* the forwarded destroy and until the next layer hands the same handle out
\* again, the shader-hash table has no entry for the handle.
C10_DestroyedHandleHasNoHash ==
    \A h \in destroyedShaders : h \notin DOMAIN shader_hash_map_

\* The content of a sink that holds these lines, each whole and ended.
RECURSIVE CompleteLines(_)
CompleteLines(lines) ==
    IF Len(lines) = 0 THEN "" ELSE lines[1] \o "\n" \o CompleteLines(Tail(lines))

LogCalled(t, op) ==
    /\ LogFree(t)
    /\ lloc'[t].op = op
    /\ <<lpc[t], lloc[t]>> # <<lpc'[t], lloc'[t]>>

\* C12: a LogLine call first appends `line` and a newline to the primary sink
\* and nothing else; then, if there is a secondary sink, appends
\* `eventType,timestampNanos,line` to it and nothing else; without a secondary
\* sink the second step writes nothing.
C12_LogLineWrites ==
    [][\A t \in LogThreads :
         /\ LogCalled(t, "LogLine")
            => /\ lpc'[t] = "ll_event"
               /\ files' = [files EXCEPT ![out_] = @ \o lloc'[t].line \o "\n"]
         /\ (lpc[t] = "ll_event" /\ lloc[t].op = "LogLine" /\ lpc'[t] # lpc[t])
            => /\ lpc'[t] = "done"
               /\ IF event_log_ = "null"
                  THEN files' = files
                  ELSE files' = [files EXCEPT !["event_file"] =
                                    @ \o lloc[t].event_type \o "," \o ToString(lloc[t].timestamp)
                                      \o "," \o lloc[t].line \o "\n"]]_vars

\* A LogLine call has returned with a secondary sink, whose last line is the
\* call's event line, while the primary sink holds the header and the line.
C12_Witness ==
    \E t \in LogThreads :
        /\ lpc[t] = "done" /\ lloc[t].op = "LogLine"
        /\ lloc[t].line = "a,1" /\ lloc[t].event_type = "present"
        /\ event_log_ = "event_file"
        /\ written[out_] = <<"event,pipeline_hash,time_delta", "a,1">>
        /\ written["event_file"][Len(written["event_file"])] = "present,1700000000,a,1"

\* C13: a LogEventOnly call leaves the primary sink alone; without a secondary
\* sink it changes no sink and creates no file; with one it appends one line,
\* `eventType,timestampNanos` if the extra content is empty and
\* `eventType,timestampNanos,extraContent` otherwise.
C13_LogEventOnlyWrites ==
    [][\A t \in LogThreads :
         LogCalled(t, "LogEventOnly")
         => /\ lpc'[t] = "done"
            /\ files'[out_] = files[out_]
            /\ IF event_log_ = "null"
               THEN files' = files
               ELSE files' = [files EXCEPT !["event_file"] =
                                 @ \o lloc'[t].event_type \o "," \o ToString(lloc'[t].timestamp)
                                   \o (IF lloc'[t].extra_content = "" THEN ""
                                       ELSE "," \o lloc'[t].extra_content)
                                   \o "\n"]]_vars

\* Both threads have returned from LogEventOnly with a secondary sink, one with
\* extra content and one without, and the secondary sink ends with a bare event.
C13_Witness ==
    /\ event_log_ = "event_file"
    /\ \E t \in LogThreads, u \in LogThreads :
         /\ lpc[t] = "done" /\ lloc[t].op = "LogEventOnly" /\ lloc[t].extra_content = ""
         /\ lpc[u] = "done" /\ lloc[u].op = "LogEventOnly" /\ lloc[u].extra_content = "x"
         /\ written["event_file"][Len(written["event_file"])] = "compile,1700000000"

\* C14: the first GetTimeDelta of a fresh registry returns the minimum
\* duration; every later one returns a duration that is not the minimum, not
\* negative, and is its clock reading minus the reading the call before stored.
C14_FirstSentinelThenDeltas ==
    \A i \in DOMAIN deltas :
        IF i = 1
        THEN deltas[i].logged_delta = DurationMin
        ELSE /\ deltas[i].logged_delta # DurationMin
             /\ deltas[i].logged_delta >= 0
             /\ deltas[i].logged_delta = deltas[i].now - deltas[i - 1].now

\* Three calls have returned, the last two with deltas that differ.
C14_Witness ==
    /\ Len(deltas) = 3
    /\ deltas[2].logged_delta > 0
    /\ deltas[3].logged_delta # deltas[2].logged_delta

\* C15: concurrent GetTimeDelta calls run one at a time from the clock reading
\* to the store: at most one thread is inside, it holds the lock, the value a
\* call read as previous is the one the call before it stored, and exactly one
\* call got the minimum duration.
C15_CallsAreSerialized ==
    /\ Cardinality({t \in LogThreads : lpc[t] \in {"gtd_now", "gtd_delta", "gtd_store"}}) <= 1
    /\ \A t \in LogThreads :
         lpc[t] \in {"gtd_now", "gtd_delta", "gtd_store"} => log_time_lock_ = t
    /\ \A i \in DOMAIN deltas :
         deltas[i].previous = IF i = 1 THEN TimePointMin ELSE deltas[i - 1].now
    /\ deltas # <<>> =>
         Cardinality({i \in DOMAIN deltas : deltas[i].logged_delta = DurationMin}) = 1
    /\ \A i \in DOMAIN deltas :
         deltas[i].logged_delta # DurationMin => deltas[i].logged_delta >= 0

\* A thread holds the lock in the middle of its call while the other thread,
\* which returned before, waits to call again; both have returned once.
C15_Witness ==
    /\ Len(deltas) = 2
    /\ deltas[1].thread # deltas[2].thread
    /\ \E t \in LogThreads, u \in LogThreads :
         /\ lpc[t] = "gtd_delta" /\ log_time_lock_ = t
         /\ lpc[u] = "done"

\* C16: once EndLog has been called on a CommonLogger, whatever its sink, no
\* step writes to a sink any more, and every AddEvent or Flush made from then
\* on ends in the failed assertion.
C16_NoWriteAfterEndLog ==
    [][end_logs >= 1
       => /\ files' = files
          /\ lloc'[1].op \in {"AddEvent", "Flush"} => lpc'[1] = "aborted"]_vars

\* C17: however many EndLog calls a CommonLogger gets, standard error is never
\* closed, and a file sink has been closed exactly once from the first EndLog
\* on, after which the logger holds no stream.
C17_FileClosedOnce ==
    /\ closes["stderr"] = 0
    /\ closes["file"] = IF ctor.log_filename = "file" /\ end_logs >= 1 THEN 1 ELSE 0
    /\ (ctor.log_filename = "file" /\ end_logs >= 1) => out_ = "null"
    /\ ctor.log_filename = "null" => out_ = "stderr"

\* A logger on a file that took two events has got its third EndLog.
C17_Witness ==
    /\ ctor.log_filename = "file"
    /\ end_logs = 3
    /\ closes["file"] = 1
    /\ Len(written["file"]) = 2
    /\ lpc[1] = "done" /\ lloc[1].op = "EndLog"

\* The hashes as `0x` and their hexadecimal digits, joined by commas.
RECURSIVE PrefixedHexList(_)
PrefixedHexList(pipeline) ==
    IF Len(pipeline) = 0 THEN ""
    ELSE "0x" \o HexDigits(pipeline[1])
             \o (IF Len(pipeline) = 1 THEN "" ELSE "," \o PrefixedHexList(Tail(pipeline)))

\* C18: for every hash, zero included, the text of the hash is `0x` followed by
\* its lowercase hexadecimal digits, and Log hands LogLine the quoted,
\* bracketed, comma-joined list of those texts, a comma and the prefix.
C18_LogLineOfHashes ==
    \A t \in LogThreads :
        (lloc[t].op = "Log" /\ lpc[t] \in {"ll_event", "done"})
        => lloc[t].line = "\"[" \o PrefixedHexList(lloc[t].pipeline) \o "]\"," \o lloc[t].prefix

\* C19: once the constructor has run, the primary sink is the named file if a
\* name was given and the file opened, and standard error otherwise; the sink
\* exists and the header is the first line written to it, ahead of every line
\* of LogLine; before that, the constructor can run whatever its arguments.
C19_ConstructorSetsPrimarySink ==
    IF out_ = "unbuilt"
    THEN ENABLED Construct
    ELSE /\ out_ = IF ctor.log_filename = "file" /\ ctor.opened THEN "file" ELSE "stderr"
         /\ out_ \in DOMAIN files
         /\ Len(written[out_]) >= 1
         /\ written[out_][1] = ctor.header
         /\ SubSeq(files[out_], 1, Len(ctor.header) + 1) = ctor.header \o "\n"

\* The named file did not open: the primary sink is standard error, a
\* diagnostic was emitted, and a LogLine line follows the header there.
C19_Witness ==
    /\ ctor.log_filename = "file" /\ ~ctor.opened
    /\ out_ = "stderr"
    /\ Len(spl_log) = 1
    /\ written["stderr"] = <<"event,pipeline_hash,time_delta", "b">>
    /\ \E t \in LogThreads : lloc[t].op = "LogLine" /\ lpc[t] = "done"

\* C20: when a CreateShaderModule that the driver gave a handle returns, the
\* shader-hash table holds the new module's hash for the handle and no
\* DestroyShaderModule of that handle is still on its way: the destroy of the
\* module that had the handle before erased its entry before the driver could
\* recycle the handle.
C20_RecycledHandleKeepsNewHash ==
    [][\A t \in Threads :
         (pc[t] = "sm_hash" /\ pc'[t] = "done" /\ loc[t].res = VK_SUCCESS)
         => /\ loc[t].handle \in DOMAIN shader_hash_map_'
            /\ shader_hash_map_'[loc[t].handle] = Fingerprint64(loc[t].code)
            /\ \A u \in Threads \ {t} :
                 ~(/\ loc'[u].op = "DestroyShaderModule"
                   /\ loc'[u].handle = loc[t].handle
                   /\ pc'[u] \in {"ds_erase", "ds_forward"})]_vars

\* One thread has destroyed a module and the other has created one that got
\* the same handle from the driver: the handle is live again and its entry is
\* the hash of the new binary.
C20_Witness ==
    \E t \in Threads, u \in Threads :
        /\ t # u
        /\ pc[u] = "done" /\ loc[u].op = "DestroyShaderModule"
        /\ pc[t] = "done" /\ loc[t].op = "CreateShaderModule" /\ loc[t].res = VK_SUCCESS
        /\ loc[t].handle = loc[u].handle
        /\ loc[t].code = 2
        /\ loc[t].handle \in liveShaders
        /\ loc[t].handle \notin destroyedShaders
        /\ shader_hash_map_[loc[t].handle] = Fingerprint64(2)

====
